---- MODULE Spec2Model ----
(***************************************************************************)
(* Air Mouse WebSocket server (air_mouse_receiver.py): the per-connection  *)
(* handler handle_client, the frame dispatcher process_message and the     *)
(* shared statistics record stats.                                         *)
(*                                                                         *)
(* A frame is abstracted by what json.loads and the dict lookups make of   *)
(* it: json is "bad" (JSONDecodeError), "nonrecord" (valid JSON that is    *)
(* not an object, so data.get raises AttributeError) or "record"; type and *)
(* cmd are the strings the code compares against, with "absent" for a      *)
(* missing key and "other" for any unrecognised value; dx and dy are the   *)
(* deltaX/deltaY fields: a number, absent, or a value for which            *)
(* value * MOUSE_ACCELERATION raises TypeError (text, null, nested record).*)
(*                                                                         *)
(* MOUSE_ACCELERATION = 1.2 is the rational AccelNum/AccelDen; for integer *)
(* deltas int(d * 1.2) in binary floating point equals the truncation of   *)
(* 12d/10 (multiples of 5 give an exact float, every other product is at   *)
(* least 0.2 away from an integer).                                        *)
(***************************************************************************)
EXTENDS Integers, Sequences, FiniteSets, TLC

\* ---- bounds of the model ----
NumConns == 2
MaxFrames == 2
MaxDelta == 3
ScreenW == 4
ScreenH == 2

\* ---- program constants ----
AccelNum == 12
AccelDen == 10
ScrollTicks == 3

Conns == 1..NumConns

\* ---- frames ----
NoDelta == [tag |-> "absent", v |-> 0]
BadDelta == [tag |-> "bad", v |-> 0]
NumDelta(n) == [tag |-> "num", v |-> n]

DeltaVals == {-MaxDelta, -1, 0, MaxDelta}
DeltaFields == {NumDelta(n) : n \in DeltaVals} \cup {NoDelta, BadDelta}

Commands == {"leftclick", "rightclick", "doubleclick", "scroll_up", "scroll_down"}

Frame(j, t, c, x, y) == [json |-> j, type |-> t, cmd |-> c, dx |-> x, dy |-> y]

BadJson == Frame("bad", "absent", "absent", NoDelta, NoDelta)
NonRecord == Frame("nonrecord", "absent", "absent", NoDelta, NoDelta)
MoveFrame(x, y) == Frame("record", "move", "absent", x, y)
CommandFrame(c) == Frame("record", "command", c, NoDelta, NoDelta)
PlainFrame(t) == Frame("record", t, "absent", NoDelta, NoDelta)

MoveFrames == {MoveFrame(x, y) : x \in DeltaFields, y \in DeltaFields}
CommandFrames == {CommandFrame(c) : c \in Commands \cup {"other", "absent"}}
PlainFrames == {PlainFrame(t) : t \in {"status", "other", "absent"}}

\* the frames of the protocol specification: every command and type, and one
\* move frame of each kind (no motion, motion, malformed field)
CoreMoves == { MoveFrame(NoDelta, NumDelta(0)),
               MoveFrame(NumDelta(MaxDelta), NoDelta),
               MoveFrame(BadDelta, NumDelta(MaxDelta)) }
Frames == {BadJson, NonRecord} \cup CoreMoves \cup CommandFrames \cup PlainFrames

\* ---- host calls made through pyautogui ----
Call(o, a, b) == [op |-> o, a |-> a, b |-> b]

\* ---- arithmetic of the move branch ----
\* int(x): truncation toward zero of the quotient a / b, b > 0
TruncDiv(a, b) == IF a >= 0 THEN a \div b ELSE -((-a) \div b)

\* variant: round(delta * MOUSE_ACCELERATION), to the nearest integer
ScaleRound(d) == (2 * d * AccelNum + AccelDen) \div (2 * AccelDen)

\* variant: math.floor(delta * MOUSE_ACCELERATION)
ScaleFloor(d) == (d * AccelNum) \div AccelDen

\* int(delta * MOUSE_ACCELERATION)
Scale(d) == TruncDiv(d * AccelNum, AccelDen)

Max2(a, b) == IF a >= b THEN a ELSE b
Min2(a, b) == IF a <= b THEN a ELSE b

\* variant: min(bound - 1, v), the lower limit forgotten
ClampUpper(v, bound) == Min2(bound - 1, v)

\* max(0, min(bound - 1, v))
Clamp(v, bound) == Max2(0, Min2(bound - 1, v))

\* data.get('deltaX', 0): the default 0 for a missing key
DeltaValue(f) == IF f.tag = "num" THEN f.v ELSE 0

\* value * MOUSE_ACCELERATION raises TypeError
CoercionRaises(f) == f.tag = "bad"

\* variant: text that is not valid JSON is taken for an empty record
DecodesAnyText(f) == f.json # "nonrecord"

\* json.loads and data.get('type', '') both succeed
Decodes(f) == f.json = "record"

\* ---- process_message, up to its first suspension point ----
\* what one call changes (stats['commands'] += 1 comes before the branch on
\* msg_type, so an exception raised in a branch leaves it counted): increments of the three counters, the host calls
\* issued in order, the pointer afterwards, and whether the call reached
\* `await websocket.send(...)` of the leftclick reply
Result(c, m, k, calls, p, reply) ==
    [commands |-> c, movements |-> m, clicks |-> k,
     calls |-> calls, pos |-> p, reply |-> reply, scaled |-> <<0, 0>>]

\* variant: delta_x != 0 and delta_y != 0
MovesBoth(delta_x, delta_y) == delta_x # 0 /\ delta_y # 0

\* delta_x != 0 or delta_y != 0
Moves(delta_x, delta_y) == delta_x # 0 \/ delta_y # 0

\* msg_type == 'move'; hostOk = FALSE: pyautogui.moveTo raises
MoveBranch(f, p, scr, hostOk) ==
    IF CoercionRaises(f.dx) \/ CoercionRaises(f.dy)
    THEN Result(0, 0, 0, <<>>, p, FALSE)
    ELSE LET delta_x == Scale(DeltaValue(f.dx))
             delta_y == Scale(DeltaValue(f.dy))
             new_x == Clamp(p[1] + delta_x, scr[1])
             new_y == Clamp(p[2] + delta_y, scr[2])
             calls == << Call("position", p[1], p[2]),
                         Call("size", scr[1], scr[2]),
                         Call("moveTo", new_x, new_y) >>
             r == IF Moves(delta_x, delta_y)
                  THEN IF hostOk
                       THEN Result(0, 1, 0, calls, <<new_x, new_y>>, FALSE)
                       ELSE Result(0, 0, 0, calls, p, FALSE)
                  ELSE Result(0, 0, 0, <<>>, p, FALSE)
         IN  [r EXCEPT !.scaled = <<delta_x, delta_y>>]

\* the pyautogui primitive of each recognised command
Primitive(cmd) ==
    CASE cmd = "leftclick" -> Call("click", 0, 0)
      [] cmd = "rightclick" -> Call("rightClick", 0, 0)
      [] cmd = "doubleclick" -> Call("doubleClick", 0, 0)
      [] cmd = "scroll_up" -> Call("scroll", ScrollTicks, 0)
      [] cmd = "scroll_down" -> Call("scroll", -ScrollTicks, 0)

\* variant: the doubleclick branch forgets stats['clicks'] += 1
CountsClickSingle(cmd) == cmd \in {"leftclick", "rightclick"}

\* the commands whose branch increments stats['clicks']
CountsClick(cmd) == cmd \in {"leftclick", "rightclick", "doubleclick"}

\* variant: every click branch sends the response
RepliesAnyClick(cmd) == cmd \in {"leftclick", "rightclick", "doubleclick"}

\* the commands whose branch awaits websocket.send of a response
Replies(cmd) == cmd = "leftclick"

\* variant: the last `elif command == 'scroll_down'` written as `else`
CommandBranchElse(f, p, hostOk) ==
    LET cmd == IF f.cmd \in Commands THEN f.cmd ELSE "scroll_down"
    IN  IF hostOk
        THEN Result(0, 0, IF CountsClick(cmd) THEN 1 ELSE 0,
                    << Primitive(cmd) >>, p, Replies(cmd))
        ELSE Result(0, 0, 0, << Primitive(cmd) >>, p, FALSE)

\* variant: stats['clicks'] += 1 written before the pyautogui call, so a
\* refused click is counted
CommandBranchCountFirst(f, p, hostOk) ==
    IF f.cmd \in Commands
    THEN Result(0, 0, IF CountsClick(f.cmd) THEN 1 ELSE 0,
                << Primitive(f.cmd) >>, p, hostOk /\ Replies(f.cmd))
    ELSE Result(0, 0, 0, <<>>, p, FALSE)

\* msg_type == 'command'; hostOk = FALSE: the pyautogui primitive raises
CommandBranch(f, p, hostOk) ==
    IF f.cmd \in Commands
    THEN IF hostOk
         THEN Result(0, 0, IF CountsClick(f.cmd) THEN 1 ELSE 0,
                     << Primitive(f.cmd) >>, p, Replies(f.cmd))
         ELSE Result(0, 0, 0, << Primitive(f.cmd) >>, p, FALSE)
    ELSE Result(0, 0, 0, <<>>, p, FALSE)

\* the branch on msg_type
Branch(f, p, scr, hostOk) ==
    CASE f.type = "move" -> MoveBranch(f, p, scr, hostOk)
      [] f.type = "command" -> CommandBranch(f, p, hostOk)
      [] OTHER -> Result(0, 0, 0, <<>>, p, FALSE)

\* variant: stats['commands'] += 1 placed after the branch, so that a frame
\* whose branch raises is not counted
ProcessMessageCountLast(f, p, scr, hostOk) ==
    IF ~Decodes(f)
    THEN Result(0, 0, 0, <<>>, p, FALSE)
    ELSE LET b == Branch(f, p, scr, hostOk)
             raised == \/ b.calls # <<>> /\ ~hostOk
                       \/ f.type = "move"
                            /\ (CoercionRaises(f.dx) \/ CoercionRaises(f.dy))
         IN  [b EXCEPT !.commands = IF raised THEN 0 ELSE 1]

\* variant: stats['commands'] += 1 placed in the command branch only, so a
\* move frame adds to movements but not to commands
ProcessMessageMoveUncounted(f, p, scr, hostOk) ==
    IF ~Decodes(f)
    THEN Result(0, 0, 0, <<>>, p, FALSE)
    ELSE [Branch(f, p, scr, hostOk) EXCEPT !.commands = IF f.type = "move" THEN 0 ELSE 1]

\* json.loads, data.get('type', ''), stats['commands'] += 1, then the branch
ProcessMessage(f, p, scr, hostOk) ==
    IF ~Decodes(f)
    THEN Result(0, 0, 0, <<>>, p, FALSE)
    ELSE [Branch(f, p, scr, hostOk) EXCEPT !.commands = 1]

\* ---- state ----
VARIABLES
    stats,    \* the module-level dict stats
    pos,      \* the host pointer, as pyautogui.position() reports it
    screen,   \* pyautogui.size()
    st,       \* per connection: where its handle_client task stands
    peer,     \* per connection: the transport as the peer left it
    sent,     \* per connection: the frames websocket.send delivered, in order
    last,     \* the most recent call of process_message
    nframes,  \* number of calls of process_message so far
    seen,     \* history: what the frames dispatched so far were, and the sum
              \* of what each call of process_message added to the counters
    acct,     \* history, per connection: leftclick frames dispatched, those
              \* left without a reply (click refused or reply write failed),
              \* and frames that were not valid JSON
    report    \* the snapshot stats_monitor printed last, if any

vars == <<stats, pos, screen, st, peer, sent, last, nframes, seen, acct, report>>

Positions == (-1..ScreenW) \X (-1..ScreenH)
Screens == {<<1, 1>>, <<ScreenW, ScreenH>>}

\* the shape of the state
TypeOK ==
    /\ stats \in [commands : 0..MaxFrames, movements : 0..MaxFrames, clicks : 0..MaxFrames]
    /\ pos \in Positions
    /\ screen \in Screens
    /\ st \in [Conns -> {"none", "connecting", "active", "replying", "closed"}]
    /\ peer \in [Conns -> {"up", "down"}]
    /\ \A c \in Conns : \A i \in 1..Len(sent[c]) : sent[c][i] \in {"welcome", "response"}
    /\ last.conn \in 0..NumConns /\ last.failed \in BOOLEAN
    /\ nframes \in 0..MaxFrames
    /\ seen \in [decoded : 0..MaxFrames, clickFrames : 0..MaxFrames, hostFailures : 0..MaxFrames,
                 commands : 0..MaxFrames, movements : 0..MaxFrames, clicks : 0..MaxFrames]
    /\ acct \in [Conns -> [left : 0..MaxFrames, noreply : 0..MaxFrames, badjson : 0..MaxFrames]]
    /\ report \in [printed : BOOLEAN, commands : 0..MaxFrames, movements : 0..MaxFrames,
                   clicks : 0..MaxFrames]

\* nothing printed by stats_monitor yet
NoReport == [printed |-> FALSE, commands |-> 0, movements |-> 0, clicks |-> 0]

NoFrame == [conn |-> 0, frame |-> BadJson, failed |-> FALSE, calls |-> <<>>,
            scaled |-> <<0, 0>>]

Start ==
    /\ stats = [commands |-> 0, movements |-> 0, clicks |-> 0]
    /\ st = [c \in Conns |-> "none"]
    /\ peer = [c \in Conns |-> "up"]
    /\ sent = [c \in Conns |-> <<>>]
    /\ last = NoFrame
    /\ nframes = 0
    /\ seen = [decoded |-> 0, clickFrames |-> 0, hostFailures |-> 0,
               commands |-> 0, movements |-> 0, clicks |-> 0]
    /\ acct = [c \in Conns |-> [left |-> 0, noreply |-> 0, badjson |-> 0]]
    /\ report = NoReport

\* the protocol specification starts with the pointer on the screen
Init ==
    /\ Start
    /\ pos = <<0, 0>>
    /\ screen = <<ScreenW, ScreenH>>

\* the move specification starts with the pointer anywhere, also off the
\* screen, and with any screen size
InitMove ==
    /\ Start
    /\ pos \in Positions
    /\ screen \in Screens

\* variant: handle_client enters its receive loop without sending the welcome
AcceptNoWelcome(c) ==
    /\ st[c] = "none"
    /\ \A d \in Conns : d < c => st[d] # "none"
    /\ st' = [st EXCEPT ![c] = "active"]
    /\ UNCHANGED <<stats, pos, screen, peer, sent, last, nframes, seen, acct, report>>

\* the transport accepts a connection and starts handle_client, which runs
\* to `await websocket.send(welcome)`; connections are numbered in the order
\* they are accepted
Accept(c) ==
    /\ st[c] = "none"
    /\ \A d \in Conns : d < c => st[d] # "none"
    /\ st' = [st EXCEPT ![c] = "connecting"]
    /\ UNCHANGED <<stats, pos, screen, peer, sent, last, nframes, seen, acct, report>>

\* the welcome write completes, or raises ConnectionClosed, which ends the
\* handler in its except clause
WelcomeWrite(c) ==
    /\ st[c] = "connecting"
    /\ IF peer[c] = "up"
       THEN /\ sent' = [sent EXCEPT ![c] = Append(@, "welcome")]
            /\ st' = [st EXCEPT ![c] = "active"]
       ELSE /\ sent' = sent
            /\ st' = [st EXCEPT ![c] = "closed"]
    /\ UNCHANGED <<stats, pos, screen, peer, last, nframes, seen, acct, report>>

\* variant: a fault on one connection brings the whole server down, closing
\* every transport
DisconnectAll(c) ==
    /\ st[c] \in {"connecting", "active", "replying"}
    /\ peer[c] = "up"
    /\ peer' = [d \in Conns |-> "down"]
    /\ UNCHANGED <<stats, pos, screen, st, sent, last, nframes, seen, acct, report>>

\* the peer closes the connection or the transport fails: from then on
\* websocket.send raises ConnectionClosed and `async for` ends once the
\* frames already received are consumed
Disconnect(c) ==
    /\ st[c] \in {"connecting", "active", "replying"}
    /\ peer[c] = "up"
    /\ peer' = [peer EXCEPT ![c] = "down"]
    /\ UNCHANGED <<stats, pos, screen, st, sent, last, nframes, seen, acct, report>>

IsRecord(f) == f.json = "record"
IsCommand(f, cmd) == IsRecord(f) /\ f.type = "command" /\ f.cmd = cmd
IsLeftClick(f) == IsCommand(f, "leftclick")
IsClickFrame(f) ==
    IsLeftClick(f) \/ IsCommand(f, "rightclick") \/ IsCommand(f, "doubleclick")

\* variant: process_message started as a task of its own instead of being
\* awaited, so the next frame is taken while a reply is still being written
CanDispatchOverlapping(c) == st[c] \in {"active", "replying"}

\* `await process_message(...)` inside `async for`: the next frame is taken
\* only when the handler is back in the loop
CanDispatch(c) == st[c] = "active"

\* variant: the counters assigned from the call's own count instead of
\* incremented, so what other frames added is lost
AddOverwriting(s, r) ==
    [commands |-> Max2(s.commands, r.commands),
     movements |-> Max2(s.movements, r.movements),
     clicks |-> Max2(s.clicks, r.clicks)]

\* the `+= 1` of the three counters
Add(s, r) ==
    [commands |-> s.commands + r.commands,
     movements |-> s.movements + r.movements,
     clicks |-> s.clicks + r.clicks]

\* `async for` yields the next frame and process_message runs until it
\* returns or suspends in the reply write
Dispatch(c, f, hostOk) ==
    /\ CanDispatch(c)
    /\ nframes < MaxFrames
    /\ LET r == ProcessMessage(f, pos, screen, hostOk)
       IN  /\ stats' = Add(stats, r)
           /\ pos' = r.pos
           /\ st' = [st EXCEPT ![c] = IF r.reply THEN "replying" ELSE "active"]
           /\ last' = [conn |-> c, frame |-> f, calls |-> r.calls,
                        failed |-> r.calls # <<>> /\ ~hostOk, scaled |-> r.scaled]
           /\ seen' = [decoded |-> seen.decoded + (IF IsRecord(f) THEN 1 ELSE 0),
                       clickFrames |-> seen.clickFrames + (IF IsClickFrame(f) THEN 1 ELSE 0),
                       hostFailures |-> seen.hostFailures
                           + (IF r.calls # <<>> /\ ~hostOk THEN 1 ELSE 0),
                       commands |-> seen.commands + r.commands,
                       movements |-> seen.movements + r.movements,
                       clicks |-> seen.clicks + r.clicks]
           /\ acct' = [acct EXCEPT ![c] =
                          [left |-> @.left + (IF IsLeftClick(f) THEN 1 ELSE 0),
                           noreply |-> @.noreply
                               + (IF IsLeftClick(f) /\ ~hostOk THEN 1 ELSE 0),
                           badjson |-> @.badjson + (IF f.json = "bad" THEN 1 ELSE 0)]]
    /\ nframes' = nframes + 1
    /\ UNCHANGED <<screen, peer, sent, report>>

\* variant: process_message without `except Exception`, so ConnectionClosed
\* raised by the reply write ends handle_client from inside process_message
ReplyWritePropagates(c) ==
    /\ st[c] = "replying"
    /\ IF peer[c] = "up"
       THEN /\ sent' = [sent EXCEPT ![c] = Append(@, "response")]
            /\ acct' = acct
            /\ st' = [st EXCEPT ![c] = "active"]
       ELSE /\ sent' = sent
            /\ acct' = [acct EXCEPT ![c].noreply = @ + 1]
            /\ st' = [st EXCEPT ![c] = "closed"]
    /\ UNCHANGED <<stats, pos, screen, peer, last, nframes, seen, report>>

\* variant: a reply write that fails is retried until it succeeds
ReplyWriteRetry(c) ==
    /\ st[c] = "replying"
    /\ IF peer[c] = "up"
       THEN /\ sent' = [sent EXCEPT ![c] = Append(@, "response")]
            /\ st' = [st EXCEPT ![c] = "active"]
       ELSE /\ sent' = sent
            /\ st' = st
    /\ acct' = acct
    /\ UNCHANGED <<stats, pos, screen, peer, last, nframes, seen, report>>

\* `await websocket.send(response)` completes, or raises ConnectionClosed,
\* which `except Exception` of process_message swallows; either way
\* process_message returns and the handler is back in `async for`
ReplyWrite(c) ==
    /\ st[c] = "replying"
    /\ IF peer[c] = "up"
       THEN /\ sent' = [sent EXCEPT ![c] = Append(@, "response")]
            /\ acct' = acct
       ELSE /\ sent' = sent
            /\ acct' = [acct EXCEPT ![c].noreply = @ + 1]
    /\ st' = [st EXCEPT ![c] = "active"]
    /\ UNCHANGED <<stats, pos, screen, peer, last, nframes, seen, report>>

\* `async for` finds the connection closed: the loop ends (normal close) or
\* ConnectionClosed is caught, and handle_client returns
HandlerExit(c) ==
    /\ st[c] = "active"
    /\ peer[c] # "up"
    /\ st' = [st EXCEPT ![c] = "closed"]
    /\ UNCHANGED <<stats, pos, screen, peer, sent, last, nframes, seen, acct, report>>

\* variant: the snapshot printed on every tick
ShouldReportAlways(s) == TRUE

\* stats['commands'] > 0
ShouldReport(s) == s.commands > 0

\* stats_monitor wakes from asyncio.sleep(30) and prints the counters if any
\* command was received
Tick ==
    /\ report' = IF ShouldReport(stats)
                 THEN [printed |-> TRUE, commands |-> stats.commands,
                       movements |-> stats.movements, clicks |-> stats.clicks]
                 ELSE report
    /\ UNCHANGED <<stats, pos, screen, st, peer, sent, last, nframes, seen, acct>>

Next ==
    \/ \E c \in Conns : Accept(c)
    \/ \E c \in Conns : WelcomeWrite(c)
    \/ \E c \in Conns : Disconnect(c)
    \/ \E c \in Conns : \E f \in Frames : \E hostOk \in BOOLEAN : Dispatch(c, f, hostOk)
    \/ \E c \in Conns : ReplyWrite(c)
    \/ \E c \in Conns : HandlerExit(c)

Spec == Init /\ [][Next]_vars

\* the frames of the task-level specification: one that does not decode, one
\* that suspends in its reply write, one that moves the pointer; with
\* hostOk = FALSE the last two raise inside process_message
TaskFrames == { BadJson, CommandFrame("leftclick"),
                MoveFrame(NumDelta(MaxDelta), NoDelta) }

\* every connection task and the stats_monitor task, interleaved at their
\* suspension points
NextTasks ==
    \/ \E c \in Conns : Accept(c)
    \/ \E c \in Conns : WelcomeWrite(c)
    \/ \E c \in Conns : Disconnect(c)
    \/ \E c \in Conns : \E f \in TaskFrames : \E hostOk \in BOOLEAN : Dispatch(c, f, hostOk)
    \/ \E c \in Conns : ReplyWrite(c)
    \/ \E c \in Conns : HandlerExit(c)
    \/ Tick

SpecTasks == Init /\ [][NextTasks]_vars

\* the event loop resumes every task that is ready: a pending write completes
\* or raises, and a handler waiting on a closed connection leaves its loop
Fairness ==
    \A c \in Conns :
        /\ WF_vars(WelcomeWrite(c))
        /\ WF_vars(ReplyWrite(c))
        /\ WF_vars(HandlerExit(c))

SpecLive == Init /\ [][NextTasks]_vars /\ Fairness

\* one connection receiving move frames over the whole range of deltas
NextMove ==
    \/ Accept(1)
    \/ WelcomeWrite(1)
    \/ Disconnect(1)
    \/ \E f \in MoveFrames : \E hostOk \in BOOLEAN : Dispatch(1, f, hostOk)
    \/ HandlerExit(1)

SpecMove == InitMove /\ [][NextMove]_vars

\* ======================= properties =======================

Abs(n) == IF n >= 0 THEN n ELSE -n

\* a step in which process_message was called
DispatchStep == nframes' = nframes + 1

IsResponse(m) == m = "response"
Responses(c) == Len(SelectSeq(sent[c], IsResponse))

\* delta * accelerationFactor with its fractional part dropped: the integer s
\* with |s| <= |d * 12/10| < |s| + 1 on the side of d
TowardZero(d) ==
    CHOOSE s \in -(2 * Abs(d))..(2 * Abs(d)) :
        /\ AccelDen * Abs(s) <= AccelNum * Abs(d)
        /\ AccelNum * Abs(d) < AccelDen * (Abs(s) + 1)
        /\ s * d >= 0

\* delta * accelerationFactor rounded to the nearest integer (12d/10 is never
\* half way between two integers)
Nearest(d) ==
    CHOOSE s \in -(2 * Abs(d))..(2 * Abs(d)) :
        2 * Abs(AccelDen * s - AccelNum * d) <= AccelDen

\* clamp(v, 0, bound - 1)
Within(v, bound) == IF v < 0 THEN 0 ELSE IF v > bound - 1 THEN bound - 1 ELSE v

\* a move frame whose deltaX and deltaY are each a number or absent
ValidMove(f) ==
    IsRecord(f) /\ f.type = "move" /\ f.dx.tag # "bad" /\ f.dy.tag # "bad"

\* the last dispatch issued the host move: position(), size(), moveTo()
MoveIssued == Len(last.calls) = 3 /\ last.calls[3].op = "moveTo"

\* C1: in every reachable state commandsReceived equals the number of frames
\* dispatched so far that decoded as a structured record, whatever became of
\* each frame afterwards (and on whichever connection it arrived).
CommandsCountDecodedFrames == stats.commands = seen.decoded

\* C1 witness: two frames were dispatched, one was not decodable, and the
\* other was counted although its host call failed.
CountedDespiteHostFailure ==
    nframes = 2 /\ stats.commands = 1 /\ last.failed /\ seen.hostFailures = 1

\* C2 as stated: whenever no reply is pending on a connection, the number of
\* response frames sent on it equals the number of leftclick frames
\* dispatched on it.
EveryLeftClickIsAnswered ==
    \A c \in Conns : st[c] # "replying" => Responses(c) = acct[c].left

LeftClickReplyStep ==
    /\ DispatchStep =>
          /\ sent' = sent
          /\ st'[last'.conn] = "replying"
                <=> (IsLeftClick(last'.frame) /\ ~last'.failed)
    /\ \A c \in Conns :
          /\ (st[c] = "replying" /\ st'[c] # "replying") =>
                sent'[c] = IF peer[c] = "up"
                           THEN Append(sent[c], "response") ELSE sent[c]
          /\ st[c] # "replying" => Responses(c)' = Responses(c)
          /\ st'[c] # "replying" =>
                Responses(c)' + acct'[c].noreply = acct'[c].left

\* C2 amended: a leftclick frame whose click primitive succeeds makes the
\* handler write one response frame, which is sent when the connection is
\* still open and lost when it is not; a leftclick whose click raises and
\* every other frame write nothing; so on each connection the responses sent
\* equal the leftclick frames dispatched minus those whose click or reply
\* write failed.
LeftClickAnsweredUnlessFailed == [][LeftClickReplyStep]_vars

\* C2 witness: a connection with two leftclick frames behind it, one answered
\* and one left without a reply.
OneAnsweredOneLost ==
    \E c \in Conns :
        /\ st[c] # "replying"
        /\ acct[c].left = 2 /\ acct[c].noreply = 1 /\ Responses(c) = 1

\* C3 as stated: the target of the host move call is
\* clamp(current + round(delta * accelerationFactor), 0, bound - 1) on each
\* axis, round being rounding to the nearest integer.
TargetIsRoundedDelta ==
    (ValidMove(last.frame) /\ MoveIssued) =>
        /\ last.calls[3].a
              = Within(last.calls[1].a + Nearest(DeltaValue(last.frame.dx)), screen[1])
        /\ last.calls[3].b
              = Within(last.calls[1].b + Nearest(DeltaValue(last.frame.dy)), screen[2])

\* C3 amended: the target of the host move call is
\* clamp(current + trunc(delta * accelerationFactor), 0, bound - 1) on each
\* axis independently, trunc dropping the fractional part.
TargetIsTruncatedDelta ==
    (ValidMove(last.frame) /\ MoveIssued) =>
        /\ last.calls[3].a
              = Within(last.calls[1].a + TowardZero(DeltaValue(last.frame.dx)), screen[1])
        /\ last.calls[3].b
              = Within(last.calls[1].b + TowardZero(DeltaValue(last.frame.dy)), screen[2])

\* C3 witness: a move by the largest delta that lands strictly inside the
\* screen, so the target shows the scaled delta unclamped.
UnclampedMove ==
    /\ ValidMove(last.frame) /\ MoveIssued /\ ~last.failed
    /\ last.frame.dx = NumDelta(MaxDelta)
    /\ last.calls[3].a > last.calls[1].a
    /\ last.calls[3].a < screen[1] - 1

ScaledTowardZero(d, s) ==
    /\ AccelDen * Abs(s) <= AccelNum * Abs(d)
    /\ AccelNum * Abs(d) < AccelDen * (Abs(s) + 1)
    /\ s * d >= 0

\* C4: the scaled delta s of each axis of a move frame satisfies
\* |s| <= |delta * accelerationFactor| < |s| + 1 with the sign of delta or 0,
\* and it is this s that is added to the current position.
ScalingTruncatesTowardZero ==
    ValidMove(last.frame) =>
        /\ ScaledTowardZero(DeltaValue(last.frame.dx), last.scaled[1])
        /\ ScaledTowardZero(DeltaValue(last.frame.dy), last.scaled[2])
        /\ MoveIssued =>
              /\ last.calls[3].a = Within(last.calls[1].a + last.scaled[1], screen[1])
              /\ last.calls[3].b = Within(last.calls[1].b + last.scaled[2], screen[2])

\* C4 witness: a negative delta whose product with the factor is not an
\* integer was scaled to a negative value of smaller magnitude and moved.
NegativeDeltaTruncated ==
    /\ ValidMove(last.frame) /\ MoveIssued
    /\ last.frame.dx.tag = "num" /\ last.frame.dx.v < 0
    /\ last.scaled[1] < 0
    /\ AccelDen * Abs(last.scaled[1]) < AccelNum * Abs(last.frame.dx.v)

\* C5: every host move call targets a point of the screen, whatever the
\* position read before it, the deltas and the screen size.
MoveTargetOnScreen ==
    \A i \in 1..Len(last.calls) :
        last.calls[i].op = "moveTo" =>
            /\ 0 <= last.calls[i].a /\ last.calls[i].a <= screen[1] - 1
            /\ 0 <= last.calls[i].b /\ last.calls[i].b <= screen[2] - 1

\* C5 witness: from a position left of the screen a negative delta was
\* commanded and the target is column 0.
NegativeClampedToZero ==
    /\ MoveIssued
    /\ last.calls[1].a < 0
    /\ last.scaled[1] < 0
    /\ last.calls[3].a = 0

\* exactly one axis of the move frame is malformed and the other carries a
\* delta whose scaled value is not zero
OneAxisMalformed(f) ==
    /\ IsRecord(f) /\ f.type = "move"
    /\ \/ f.dx.tag = "bad" /\ f.dy.tag = "num" /\ TowardZero(f.dy.v) # 0
       \/ f.dy.tag = "bad" /\ f.dx.tag = "num" /\ TowardZero(f.dx.v) # 0

\* C6 as stated: a malformed deltaX or deltaY counts as 0 and the frame is
\* dispatched with the other axis: the host move is issued and movesApplied
\* is incremented (when the host accepts the move).
MalformedAxisCountsAsZero ==
    [][ (DispatchStep /\ OneAxisMalformed(last'.frame)) =>
            /\ Len(last'.calls) = 3 /\ last'.calls[3].op = "moveTo"
            /\ ~last'.failed => stats'.movements = stats.movements + 1 ]_vars

\* C7: a frame that is not valid JSON changes no counter, invokes no host
\* primitive, moves nothing, sends nothing and leaves its connection's
\* handler in the loop, ready for the next frame.
InvalidJsonIsDropped ==
    [][ (DispatchStep /\ last'.frame.json = "bad") =>
            /\ stats' = stats
            /\ last'.calls = <<>>
            /\ pos' = pos
            /\ sent' = sent
            /\ peer' = peer
            /\ st' = st
            /\ st'[last'.conn] = "active" ]_vars

\* C7 witness: on one connection an invalid frame was dropped and the
\* leftclick after it was counted, executed and answered.
FrameAfterInvalidJsonServed ==
    \E c \in Conns :
        /\ nframes = 2 /\ acct[c].badjson = 1
        /\ last.conn = c /\ IsLeftClick(last.frame)
        /\ stats = [commands |-> 1, movements |-> 0, clicks |-> 1]
        /\ sent[c] = <<"welcome", "response">>

\* a decoded frame that matches no action
NoAction(f) ==
    /\ IsRecord(f)
    /\ \/ f.type \in {"absent", "other", "status"}
       \/ f.type = "command" /\ f.cmd \in {"absent", "other"}

\* C8: a decoded frame that matches no action adds 1 to commandsReceived
\* and changes nothing else: no other counter, no host primitive, no reply.
UnmatchedFrameOnlyCounted ==
    [][ (DispatchStep /\ NoAction(last'.frame)) =>
            /\ stats' = [stats EXCEPT !.commands = @ + 1]
            /\ last'.calls = <<>>
            /\ pos' = pos
            /\ sent' = sent
            /\ st' = st ]_vars

\* C8 witness: after a click, a command frame with an unrecognised command
\* string was dispatched: two frames counted, one click.
UnknownCommandCounted ==
    /\ last.frame = CommandFrame("other")
    /\ stats = [commands |-> 2, movements |-> 0, clicks |-> 1]

ZeroMove(f) ==
    ValidMove(f) /\ DeltaValue(f.dx) = 0 /\ DeltaValue(f.dy) = 0

NonZeroMove(f) ==
    /\ ValidMove(f)
    /\ TowardZero(DeltaValue(f.dx)) # 0 \/ TowardZero(DeltaValue(f.dy)) # 0

MoveCalls(calls) == Cardinality({i \in 1..Len(calls) : calls[i].op = "moveTo"})

\* C9 as stated: a move frame with both deltas zero issues no host call and
\* leaves movesApplied unchanged; one with a non-zero scaled delta issues
\* exactly one host move call and adds exactly 1 to movesApplied.
NonZeroMoveAlwaysCounted ==
    [][ DispatchStep =>
            /\ ZeroMove(last'.frame) =>
                  last'.calls = <<>> /\ stats'.movements = stats.movements
            /\ NonZeroMove(last'.frame) =>
                  /\ MoveCalls(last'.calls) = 1
                  /\ stats'.movements = stats.movements + 1 ]_vars

\* C9 amended: a move frame with both deltas zero issues no host call (no
\* position or size read either) and leaves movesApplied unchanged; a move
\* frame whose deltas are numbers or absent, with a non-zero scaled delta on
\* at least one axis, issues exactly one host move call, and movesApplied
\* grows by exactly 1 when that call succeeds and stays when it raises, also
\* when clamping makes the target equal to the current position.
NonZeroMoveCountedWhenHostAccepts ==
    [][ DispatchStep =>
            /\ ZeroMove(last'.frame) =>
                  last'.calls = <<>> /\ stats'.movements = stats.movements
            /\ NonZeroMove(last'.frame) =>
                  /\ MoveCalls(last'.calls) = 1
                  /\ stats'.movements
                        = stats.movements + (IF last'.failed THEN 0 ELSE 1) ]_vars

\* C9 witness: a non-zero move was issued and counted although clamping made
\* its target the position the pointer was already at.
ClampedMoveToSamePoint ==
    /\ NonZeroMove(last.frame) /\ MoveIssued /\ ~last.failed
    /\ last.calls[3].a = last.calls[1].a
    /\ last.calls[3].b = last.calls[1].b
    /\ stats.movements >= 1

\* the host call a recognised command must make
Expected(cmd) ==
    CASE cmd = "leftclick" -> [op |-> "click", a |-> 0, b |-> 0]
      [] cmd = "rightclick" -> [op |-> "rightClick", a |-> 0, b |-> 0]
      [] cmd = "doubleclick" -> [op |-> "doubleClick", a |-> 0, b |-> 0]
      [] cmd = "scroll_up" -> [op |-> "scroll", a |-> 3, b |-> 0]
      [] cmd = "scroll_down" -> [op |-> "scroll", a |-> -3, b |-> 0]

ClickCommandStep ==
    /\ (DispatchStep /\ IsRecord(last'.frame) /\ last'.frame.type = "command"
           /\ last'.frame.cmd \in Commands /\ ~last'.failed) =>
          /\ last'.calls = << Expected(last'.frame.cmd) >>
          /\ stats'.clicks = stats.clicks
                + (IF last'.frame.cmd \in {"leftclick", "rightclick", "doubleclick"}
                   THEN 1 ELSE 0)
    /\ seen'.hostFailures = 0 => stats'.clicks = seen'.clickFrames
    /\ \A c \in Conns :
          (/\ nframes' = 2 /\ seen'.hostFailures = 0
           /\ last'.conn = c /\ IsCommand(last'.frame, "rightclick")
           /\ acct'[c].left = 1 /\ acct'[c].noreply = 0) =>
              stats'.clicks = 2 /\ Responses(c)' = 1

\* C10: while host calls succeed, each leftclick, rightclick and doubleclick
\* frame invokes its click primitive once and adds 1 to clicksApplied, so
\* clicksApplied equals the number of such frames; scroll_up and scroll_down
\* invoke scroll(3) and scroll(-3) and leave clicksApplied; a leftclick
\* followed by a rightclick gives clicksApplied = 2 and one reply.
ClicksCountClickFrames == [][ClickCommandStep]_vars

\* C10 witness: leftclick then rightclick on one connection, both executed:
\* two clicks counted and exactly one response sent.
LeftThenRightClick ==
    /\ nframes = 2 /\ seen.hostFailures = 0
    /\ IsCommand(last.frame, "rightclick")
    /\ stats.clicks = 2
    /\ \E c \in Conns :
          last.conn = c /\ acct[c].left = 1 /\ sent[c] = <<"welcome", "response">>

HostFailureStep ==
    /\ (DispatchStep /\ last'.failed) =>
          /\ stats' = [stats EXCEPT !.commands = @ + 1]
          /\ sent' = sent
          /\ pos' = pos
          /\ st[last'.conn] = "active" /\ st' = st
    /\ (DispatchStep /\ last.failed /\ last'.conn = last.conn /\ ~last'.failed) =>
          /\ IsLeftClick(last'.frame) =>
                st'[last'.conn] = "replying" /\ stats'.clicks = stats.clicks + 1
          /\ (ValidMove(last'.frame) /\ MoveIssued') =>
                stats'.movements = stats.movements + 1

\* C11: a dispatch whose host call (move, click, right click, double click,
\* scroll) fails is contained: the step sends nothing, adds nothing to
\* movesApplied or clicksApplied (only the frame itself is counted), leaves
\* the pointer and leaves the connection Active; the next frame of the same
\* connection is dispatched as usual (a leftclick is counted and gets its
\* reply write, a move is counted).
HostFailureContained == [][HostFailureStep]_vars

\* C11 witness: on one connection a leftclick was refused by the host and
\* left unanswered, and the leftclick after it was executed and answered.
RefusedClickThenAnsweredClick ==
    /\ nframes = 2 /\ seen.hostFailures = 1 /\ ~last.failed
    /\ IsLeftClick(last.frame)
    /\ stats = [commands |-> 2, movements |-> 0, clicks |-> 1]
    /\ \E c \in Conns :
          /\ last.conn = c /\ st[c] = "active"
          /\ acct[c].left = 2 /\ acct[c].noreply = 1
          /\ sent[c] = <<"welcome", "response">>

InOrderStep ==
    /\ DispatchStep =>
          /\ st[last'.conn] = "active"
          /\ Responses(last'.conn) + acct[last'.conn].noreply = acct[last'.conn].left
          /\ \A d \in Conns : d # last'.conn => st'[d] = st[d]
    /\ \A c \in Conns :
          /\ sent'[c] # sent[c] /\ st[c] # "connecting" =>
                /\ st[c] = "replying" /\ st'[c] = "active"
                /\ sent'[c] = Append(sent[c], "response")
                /\ nframes' = nframes
          /\ st'[c] = "replying" /\ st[c] # "replying" =>
                DispatchStep /\ last'.conn = c /\ IsLeftClick(last'.frame)

\* C12: the frames of one connection are processed one after the other: a
\* frame is dispatched on a connection only when the handler is back in its
\* receive loop, that is when the dispatch of the frame before it has
\* finished and the reply of every earlier leftclick of the connection has
\* been written or given up; a response is written only by the dispatch that
\* is pending on the connection, before any later frame of it is dispatched.
FramesProcessedInOrder == [][InOrderStep]_vars

\* C12 witness: on one connection a leftclick was dispatched and its reply
\* written, and only then the next frame, a move, was dispatched.
MoveAfterReplyWritten ==
    /\ nframes = 2 /\ IsRecord(last.frame) /\ last.frame.type = "move" /\ ~last.failed
    /\ stats = [commands |-> 2, movements |-> 1, clicks |-> 1]
    /\ \E c \in Conns :
          /\ last.conn = c /\ st[c] = "active"
          /\ acct[c].left = 1 /\ sent[c] = <<"welcome", "response">>

IsWelcome(m) == m = "welcome"
Welcomes(c) == Len(SelectSeq(sent[c], IsWelcome))

\* C13 as stated: every accepted connection whose handler is past the welcome
\* write has sent the welcome exactly once, as its first frame.
WelcomeSentExactlyOnce ==
    \A c \in Conns :
        st[c] \in {"active", "replying", "closed"} =>
            Welcomes(c) = 1 /\ sent[c][1] = "welcome"

WelcomeFirstState ==
    \A c \in Conns :
        /\ Welcomes(c) <= 1
        /\ sent[c] # <<>> => sent[c][1] = "welcome"
        /\ st[c] \in {"active", "replying"} => Welcomes(c) = 1
        /\ st[c] \in {"none", "connecting"} => sent[c] = <<>>
        /\ Welcomes(c) = 0 =>
              acct[c] = [left |-> 0, noreply |-> 0, badjson |-> 0] /\ last.conn # c

WelcomeFirstStep ==
    /\ DispatchStep => Welcomes(last'.conn) = 1
    /\ \A c \in Conns :
          /\ Responses(c)' > Responses(c) => Welcomes(c) = 1
          /\ Welcomes(c)' > Welcomes(c) =>
                st[c] = "connecting" /\ peer[c] = "up" /\ sent[c] = <<>>
          /\ st[c] = "connecting" /\ st'[c] # "connecting" =>
                IF peer[c] = "up"
                THEN sent'[c] = <<"welcome">> /\ st'[c] = "active"
                ELSE sent'[c] = <<>> /\ st'[c] = "closed"

\* C13 amended: on every accepted connection the welcome write is the first
\* thing the handler does and is attempted once; when it succeeds the welcome
\* is the first outbound frame and is sent exactly once; when it fails
\* because the peer is already gone, the connection closes having sent
\* nothing; no frame of a connection is dispatched and no response is sent on
\* it before its welcome has been sent.
WelcomeFirstAtMostOnce == []WelcomeFirstState /\ [][WelcomeFirstStep]_vars

\* C13 witness: one connection lost its peer before the welcome write and
\* closed having sent nothing; the other sent its welcome first and then the
\* response to a leftclick.
OneWelcomedOneNot ==
    /\ st[1] = "closed" /\ sent[1] = <<>> /\ peer[1] = "down"
    /\ st[2] = "active" /\ sent[2] = <<"welcome", "response">>
    /\ last.conn = 2 /\ IsLeftClick(last.frame)

\* what the program holds of connection c
ConnState(c) == <<st[c], peer[c], sent[c], acct[c]>>

IsolationState ==
    /\ \A d \in Conns :
          (st[d] = "active" /\ nframes < MaxFrames) =>
              ENABLED Dispatch(d, CommandFrame("leftclick"), TRUE)
    /\ (stats.commands > 0 /\ ~report.printed) => ENABLED <<Tick>>_vars
    /\ \A c \in Conns : st[c] = "closed" => peer[c] = "down"

IsolationStep ==
    \A c \in Conns :
        /\ ConnState(c)' # ConnState(c) =>
              \A d \in Conns : d # c => ConnState(d)' = ConnState(d)
        /\ (\/ peer'[c] # peer[c]
            \/ (st'[c] = "closed" /\ st[c] # "closed")
            \/ (DispatchStep /\ last'.conn = c)) =>
              /\ \A d \in Conns : d # c => ConnState(d)' = ConnState(d)
              /\ report' = report
        /\ (st'[c] = "closed" /\ st[c] # "closed") => peer[c] = "down"

\* C14: a peer close, a transport fault or a dispatch error on a connection
\* changes nothing of any other connection and nothing of the reporter: a
\* connection is closed only when its own transport is down, every other
\* connection that is Active can still have a frame dispatched, the reporter
\* can still take its step, and each handler ends in its own Closed state.
ErrorsIsolatedPerConnection == []IsolationState /\ [][IsolationStep]_vars

\* C14 witness: connection 1 received an undecodable frame, lost its
\* transport and closed; after that connection 2, still Active with its peer
\* up, had a move dispatched and the reporter printed the counters.
OneClosedOtherServed ==
    /\ st[1] = "closed" /\ peer[1] = "down" /\ acct[1].badjson = 1
    /\ st[2] = "active" /\ peer[2] = "up"
    /\ last.conn = 2 /\ ValidMove(last.frame) /\ ~last.failed
    /\ stats = [commands |-> 1, movements |-> 1, clicks |-> 0]
    /\ report.printed /\ report.movements = 1

\* C15: with the connection tasks and the reporter interleaved at their
\* suspension points, no counter update is lost: in every reachable state,
\* and so at quiescence, each of commandsReceived, movesApplied and
\* clicksApplied equals the sum, over the frames dispatched on all
\* connections, of what each dispatch added to it, also while a leftclick
\* dispatch is suspended in its reply write.
NoCounterUpdateLost ==
    /\ stats.commands = seen.commands
    /\ stats.movements = seen.movements
    /\ stats.clicks = seen.clicks

\* C15 witness: both connections are suspended in the reply write of a
\* leftclick, the reporter ran between the two dispatches, and both clicks
\* are counted.
TwoSuspendedClicksCounted ==
    /\ st[1] = "replying" /\ st[2] = "replying"
    /\ acct[1].left = 1 /\ acct[2].left = 1
    /\ report.printed /\ report.clicks = 1
    /\ stats = [commands |-> 2, movements |-> 0, clicks |-> 2]

\* C16 as stated: a connection enters Closed only from Active, and a closed
\* connection has nothing dispatched or sent any more.
ClosedOnlyFromActive ==
    [][ \A c \in Conns :
           /\ (st'[c] = "closed" /\ st[c] # "closed") => st[c] = "active"
           /\ st[c] = "closed" =>
                 /\ st'[c] = "closed" /\ sent'[c] = sent[c]
                 /\ ~(DispatchStep /\ last'.conn = c) ]_vars

\* the moves of a handler from one lifecycle state to the next
Lifecycle ==
    { <<"none", "connecting">>, <<"connecting", "active">>,
      <<"connecting", "closed">>, <<"active", "replying">>,
      <<"replying", "active">>, <<"active", "closed">> }

LifecycleStep ==
    \A c \in Conns :
        /\ st'[c] # st[c] => <<st[c], st'[c]>> \in Lifecycle
        /\ (st'[c] = "closed" /\ st[c] # "closed") =>
              /\ peer[c] = "down"
              /\ st[c] = "connecting" => sent[c] = <<>>
        /\ st[c] = "closed" =>
              /\ st'[c] = "closed" /\ sent'[c] = sent[c]
              /\ ~(DispatchStep /\ last'.conn = c)

\* C16 amended: a connection goes Connecting -> Active -> Closed, or
\* Connecting -> Closed when the welcome write fails because the peer is
\* already gone (nothing was sent on it then); Closed is entered only after
\* the connection's own transport went down, from the receive loop or from
\* the welcome write, never from the middle of a dispatch; Closed is
\* terminal: no frame of a closed connection is dispatched and no frame is
\* sent on it.
ClosedFromActiveOrFailedWelcome == [][LifecycleStep]_vars

\* C16 witness: connection 1 closed straight from Connecting, its welcome
\* write having failed; connection 2 closed from Active after it had answered
\* a leftclick.
ClosedBothWays ==
    /\ st[1] = "closed" /\ sent[1] = <<>>
    /\ st[2] = "closed" /\ sent[2] = <<"welcome", "response">>

\* the three counters as the reporter prints them
Snapshot ==
    [printed |-> TRUE, commands |-> stats.commands,
     movements |-> stats.movements, clicks |-> stats.clicks]

ReporterStep ==
    /\ report' # report =>
          /\ stats.commands > 0
          /\ report' = Snapshot
          /\ UNCHANGED <<stats, pos, screen, st, peer, sent, last, nframes, seen, acct>>
    /\ report'.printed => report'.commands > 0

\* C17: the reporter only observes: it prints a snapshot only when
\* commandsReceived > 0 (nothing is ever printed while it is 0, and once it
\* is positive a tick prints), the snapshot holds the three counters as they
\* are at that instant, and a reporter step changes no counter, no
\* connection's state and not the host pointer.
ReporterOnlyObserves ==
    /\ [][ReporterStep]_vars
    /\ []((stats.commands > 0 /\ report # Snapshot) => ENABLED <<Tick>>_vars)

\* C17 witness: the reporter printed after the first counted frame, a move,
\* and a leftclick was dispatched since: the snapshot shows the counters of
\* the instant of the tick, the counters have moved on.
SnapshotThenMoreFrames ==
    /\ report = [printed |-> TRUE, commands |-> 1, movements |-> 1, clicks |-> 0]
    /\ stats = [commands |-> 2, movements |-> 1, clicks |-> 1]
    /\ st[last.conn] = "replying"

CountersConsistent ==
    /\ stats.commands >= 0 /\ stats.movements >= 0 /\ stats.clicks >= 0
    /\ stats.movements + stats.clicks <= stats.commands

CountersStep ==
    /\ stats'.commands >= stats.commands
    /\ stats'.movements >= stats.movements
    /\ stats'.clicks >= stats.clicks
    /\ (stats'.movements - stats.movements) + (stats'.clicks - stats.clicks)
          <= stats'.commands - stats.commands
    /\ stats'.commands - stats.commands <= 1

\* C18: in every reachable state the three counters are non-negative and
\* movesApplied + clicksApplied <= commandsReceived; no step decreases a
\* counter, and a step adds at most one move or click, only together with
\* the frame it belongs to.
CountersNeverDecrease == []CountersConsistent /\ [][CountersStep]_vars

\* C18 witness: a move and a doubleclick were dispatched and executed, so
\* movesApplied + clicksApplied equals commandsReceived.
MoveAndDoubleClickCounted ==
    /\ nframes = 2 /\ IsCommand(last.frame, "doubleclick") /\ ~last.failed
    /\ stats.commands = 2 /\ stats.movements = 1 /\ stats.clicks = 1

\* C19: under fair scheduling of the handler tasks, every connection whose
\* peer closed or whose transport failed eventually reaches Closed, whatever
\* frames it received before, including frames that did not decode or whose
\* dispatch raised.
DisconnectedEventuallyClosed ==
    \A c \in Conns : (peer[c] = "down") ~> (st[c] = "closed")

\* C19 witness: a connection that received an undecodable frame and then a
\* leftclick the host refused lost its transport and is Closed.
ClosedAfterFailedFrames ==
    \E c \in Conns :
        /\ st[c] = "closed" /\ peer[c] = "down"
        /\ acct[c].badjson = 1 /\ acct[c].left = 1 /\ acct[c].noreply = 1
        /\ last.conn = c /\ last.failed /\ seen.hostFailures = 1

====
